---- MODULE Spec2Model ----
(***************************************************************************)
(* Model of the rboy front end (src/src/main.rs), of the strict PartialOrd *)
(* derive macro (strict_partial_ord_derive) and of the plugin permissions. *)
(*                                                                         *)
(* The specifications of the module:                                       *)
(*   SpecOrd    the partial_cmp generated by #[derive(PartialOrd)]         *)
(*   Spec       the host event loop, the CPU thread (run_cpu, pause_cpu)   *)
(*              and the periodic timer thread                              *)
(*   SpecStart  real_main / run_test_mode from the command line on,        *)
(*              followed by Spec                                           *)
(*   SpecAudio  CpalPlayer::play against the cpal_thread callback          *)
(*   SpecShared the threads of Spec or the threads of SpecAudio            *)
(*   SpecPerms  ReadWritePermissions (plugins/perms.rs)                    *)
(*   SpecPpu, SpecIrq, SpecMmu  the PPU, interrupt and cycle distribution  *)
(*              rules of the emulator core                                 *)
(***************************************************************************)
EXTENDS Integers, Sequences, FiniteSets, TLC

VARIABLES
    \* ---- strict PartialOrd ----
    ordA,        \* field values of self
    ordB,        \* field values of other
    ordRes,      \* result of self.partial_cmp(&other), "unset" before the call
    \* ---- host thread (real_main) ----
    hpc,         \* position of the host thread
    paused,      \* real_main's `paused` flag
    evChan,      \* (sender1, receiver1): unbounded mpsc channel of GBEvent
    frameChan,   \* (sender2, receiver2): sync_channel(1) of frames
    rxDropped,   \* receiver2 has been dropped by the host
    nSent,       \* number of GBEvents sent by the event loop (bounded)
    sentKeys,    \* history: KeyDown/KeyUp events delivered to evChan, in order
    received,    \* history: frames received by the host, in order
    hungup,      \* history: a frame receive has failed with a disconnected channel
    test_mode,   \* the --test-mode flag
    exitcode,    \* value returned by real_main, NoExit while it runs
    warned,      \* last message passed to warn(), "none" before
    window,      \* the window has been created
    \* ---- CPU thread (run_cpu) ----
    pc,          \* position of the CPU thread
    ticks,       \* run_cpu's `ticks`
    limit_speed, \* run_cpu's `limit_speed`
    plugin_table,\* run_cpu's `plugin_table` is Some
    produced,    \* number of frames produced so far (frame ids 1..produced)
    curFrame,    \* frame handed to try_send, 0 when none
    takenKeys,   \* history: KeyDown/KeyUp events taken out of evChan
    applied,     \* history: keydown/keyup calls made on the Device
    trySends,    \* history: number of sender.try_send calls made
    droppedFrames,  \* history: frames whose try_send returned Full
    begunAfterDrop, \* history: a do_cycle began after receiver2 was dropped
    sendAfterDrop,  \* history: a try_send was made after receiver2 was dropped
    deviceCallers,  \* history: threads that have invoked a method of the Device
                    \* once it is set up (do_cycle, keyup, keydown, sync_audio, ..)
    batch,          \* history: cycles executed by the current run of the inner
                    \* while loop of run_cpu
    counting,       \* whether this behaviour keeps the cycle account below
    total,          \* history: cycles executed by do_cycle calls so far
    nBatches,       \* history: executions of ticks -= waitticks so far
    \* ---- periodic timer thread (timer_periodic) ----
    tpc,         \* position of the timer thread
    \* ---- audio (CpalPlayer / cpal_thread) ----
    buffer,      \* CpalPlayer.buffer: Vec<(f32, f32)> behind the mutex
    nextSample,  \* number of the next stereo pair handed to play
    outbuffer,   \* the output slice of the last cpal_thread callback
    delivered,   \* history: pairs written to the output device
    mutex,       \* holder of the buffer's Mutex: "free", "cpu", "audio"; "none"
                 \* while no audio stream exists
    \* ReadWritePermissions (plugins/perms.rs)
    permStep,    \* "value": from_value not yet called, "result": it has
                 \* returned, "levels": is_all and is_none have been called
    permValue,   \* the Lua value handed to from_value
    perms,       \* the Result returned by from_value
    permIsAll,   \* result of is_all() on the permissions obtained
    permIsNone,  \* result of is_none() on the permissions obtained
    \* the PPU of the emulator core
    gpu,         \* [mode, ly, clock, updated, reqs, sets]: mode, LY, cycles spent
                 \* in the mode (in the line, in mode 1), the frame-ready flag,
                 \* VBlank requests (IF bit 0) so far, times the flag was set
                 \* in the current frame
    fed,         \* cycles fed to the PPU so far
    trueReturns, \* times check_and_reset_gpu_updated returned true
    ppuStep,     \* "cycle": do_cycle is next, "check": check_and_reset is next
    \* the CPU's interrupt handling
    ime,         \* "Disabled", "Enabled" or "PendingEnable"
    inte,        \* IE (0xFFFF), as the set of its set bits
    intf,        \* IF (0xFF0F), as the set of its set bits
    halted,      \* the HALT state flag
    regPC,       \* PC
    regSP,       \* SP
    stack,       \* the words pushed, oldest first
    cpuStep,     \* part of the CPU step that is next: "activate", "interrupt",
                 \* "execute"
    nServices,   \* history: interrupts serviced
    nInstr,      \* history: instructions executed
    \* the MMU's distribution of cycles
    gbspeed,     \* 1: normal speed, 2: double speed
    cpuSingle,   \* history: cycles of the instructions executed at normal speed
    cpuDouble,   \* history: cycles of the instructions executed at double speed
    timerSum,    \* cycles the Timer has been advanced by
    gpuSum,      \* cycles the GPU has been advanced by
    apuSum,      \* cycles the APU has been advanced by
    \* ---- plugin callbacks (load_ram_callbacks) ----
    luaFn,       \* the callback Lua called last, "none" before the first call
    luaArgs,     \* the stack that call was entered with
    luaRet,      \* the stack that call returned with
    mmuCalls,    \* history: the rb and wb calls made on the MMU
    luaCalls     \* history: number of callback calls made

ordVars   == <<ordA, ordB, ordRes>>
startVars == <<test_mode, exitcode, warned, window>>
hostVars  == <<hpc, paused, evChan, frameChan, rxDropped, nSent, sentKeys, received, hungup,
               startVars>>
acct      == <<counting, total, nBatches>>
cpuVars   == <<pc, ticks, limit_speed, plugin_table, produced, curFrame,
               takenKeys, applied, trySends, droppedFrames, begunAfterDrop,
               sendAfterDrop, deviceCallers, batch, acct, tpc>>
audioVars == <<buffer, nextSample, outbuffer, delivered, mutex>>
permVars  == <<permStep, permValue, perms, permIsAll, permIsNone>>
ppuVars   == <<gpu, fed, trueReturns, ppuStep>>
irqVars   == <<ime, inte, intf, halted, regPC, regSP, stack, cpuStep, nServices, nInstr>>
mmuVars   == <<gbspeed, cpuSingle, cpuDouble, timerSum, gpuSum, apuSum>>
luaVars   == <<luaFn, luaArgs, luaRet, mmuCalls, luaCalls>>
coreVars  == <<permVars, ppuVars, irqVars, mmuVars, luaVars>>
vars      == <<ordVars, hostVars, cpuVars, audioVars, coreVars>>

(***************************************************************************)
(* Bounds                                                                  *)
(***************************************************************************)
NumFields == 3      \* fields of the struct deriving PartialOrd
MaxVal == 1         \* field values range over -MaxVal..MaxVal and NaN

(***************************************************************************)
(* Strict PartialOrd: strict_partial_ord_derive/src/lib.rs                 *)
(***************************************************************************)
NoExit == -1                 \* real_main has not returned
EXITCODE_SUCCESS == 0
EXITCODE_CPULOADFAILS == 2

NaN == MaxVal + 1
FieldVals == (-MaxVal..MaxVal) \cup {NaN}
Structs == [1..NumFields -> FieldVals]

\* self.#member.partial_cmp(&other.#member) for an f32 member
field_partial_cmp(x, y) ==
    IF x = NaN \/ y = NaN THEN "None"
    ELSE IF x < y THEN "Less"
    ELSE IF x > y THEN "Greater"
    ELSE "Equal"

\* faulty variant: a contradiction keeps the accumulator instead of returning None
member_match_keep(acc, member_ord) ==
    IF acc = "Equal" THEN member_ord
    ELSE acc

\* faulty variant: the ordering of the last member always wins
member_match_last(acc, member_ord) ==
    member_ord

\* match (acc, member_ord) { .. }: the new acc, or "None" for `return None`
member_match(acc, member_ord) ==
    IF acc = "Equal" THEN member_ord
    ELSE IF acc = "Less" /\ member_ord = "Less" THEN acc
    ELSE IF acc = "Greater" /\ member_ord = "Greater" THEN acc
    ELSE "None"

RECURSIVE members_match_blocks(_, _, _, _)
RECURSIVE members_match_blocks_skip(_, _, _, _)

\* faulty variant: a member whose partial_cmp is None is skipped (no `?`)
members_match_blocks_skip(self, other, i, acc) ==
    IF i > NumFields THEN acc
    ELSE LET member_ord == field_partial_cmp(self[i], other[i]) IN
         IF member_ord = "None" THEN members_match_blocks_skip(self, other, i + 1, acc)
         ELSE LET next == member_match(acc, member_ord) IN
              IF next = "None" THEN "None"
              ELSE members_match_blocks_skip(self, other, i + 1, next)

\* #(#members_match_blocks)* followed by Some(acc): members i..NumFields
members_match_blocks(self, other, i, acc) ==
    IF i > NumFields THEN acc
    ELSE LET member_ord == field_partial_cmp(self[i], other[i]) IN
         IF member_ord = "None" THEN "None"
         ELSE LET next == member_match(acc, member_ord) IN
              IF next = "None" THEN "None"
              ELSE members_match_blocks(self, other, i + 1, next)

\* fn partial_cmp(&self, other: &Self) -> Option<Ordering>
partial_cmp(self, other) == members_match_blocks(self, other, 1, "Equal")

HostIdle ==
    /\ hpc = "idle" /\ paused = FALSE /\ evChan = <<>> /\ frameChan = <<>>
    /\ rxDropped = FALSE /\ nSent = 0 /\ sentKeys = <<>> /\ received = <<>> /\ hungup = FALSE
    /\ test_mode = FALSE /\ exitcode = NoExit /\ warned = "none" /\ window = FALSE

\* the cycle account of a behaviour that does not keep it
AcctOff == counting = FALSE /\ total = 0 /\ nBatches = 0

CpuIdle ==
    /\ pc = "idle" /\ ticks = 0 /\ limit_speed = TRUE /\ plugin_table = FALSE
    /\ produced = 0 /\ curFrame = 0 /\ takenKeys = <<>> /\ applied = <<>>
    /\ trySends = 0 /\ droppedFrames = {} /\ begunAfterDrop = FALSE
    /\ sendAfterDrop = FALSE /\ deviceCallers = {} /\ batch = 0 /\ AcctOff /\ tpc = "idle"

AudioIdle ==
    /\ buffer = <<>> /\ nextSample = 0 /\ outbuffer = <<>> /\ delivered = <<>>
    /\ mutex = "none"

PermIdle ==
    /\ permStep = "idle" /\ permValue = "unset" /\ perms = "unset"
    /\ permIsAll = FALSE /\ permIsNone = FALSE

PpuIdle ==
    /\ gpu = "off" /\ fed = 0 /\ trueReturns = 0 /\ ppuStep = "idle"

IrqIdle ==
    /\ ime = "Disabled" /\ inte = {} /\ intf = {} /\ halted = FALSE
    /\ regPC = 0 /\ regSP = 0 /\ stack = <<>> /\ cpuStep = "idle"
    /\ nServices = 0 /\ nInstr = 0

MmuIdle ==
    /\ gbspeed = 0 /\ cpuSingle = 0 /\ cpuDouble = 0
    /\ timerSum = 0 /\ gpuSum = 0 /\ apuSum = 0

LuaIdle ==
    /\ luaFn = "none" /\ luaArgs = <<>> /\ luaRet = <<>>
    /\ mmuCalls = <<>> /\ luaCalls = 0

CoreIdle == PermIdle /\ PpuIdle /\ IrqIdle /\ MmuIdle /\ LuaIdle

InitOrd ==
    /\ ordA \in Structs
    /\ ordB \in Structs
    /\ ordRes = "unset"
    /\ HostIdle /\ CpuIdle /\ AudioIdle /\ CoreIdle

\* p1.partial_cmp(&p2)
Compare ==
    /\ ordRes = "unset"
    /\ ordRes' = partial_cmp(ordA, ordB)
    /\ UNCHANGED <<ordA, ordB, hostVars, cpuVars, audioVars, coreVars>>

NextOrd == Compare

SpecOrd == InitOrd /\ [][NextOrd]_vars

(***************************************************************************)
(* Claims about the strict PartialOrd                                      *)
(***************************************************************************)
FieldOrd(i) == field_partial_cmp(ordA[i], ordB[i])
Compared == ordRes # "unset"
AllGeq == \A i \in 1..NumFields : FieldOrd(i) \in {"Greater", "Equal"}
AllLeq == \A i \in 1..NumFields : FieldOrd(i) \in {"Less", "Equal"}
SomeGreater == \E i \in 1..NumFields : FieldOrd(i) = "Greater"
SomeLess == \E i \in 1..NumFields : FieldOrd(i) = "Less"
SomeNone == \E i \in 1..NumFields : FieldOrd(i) = "None"
AllEqual == \A i \in 1..NumFields : FieldOrd(i) = "Equal"

\* C1: partial_cmp(a, b) is Some(Greater) exactly when every field of a is
\* greater-or-equal and at least one strictly greater, and Some(Less) exactly
\* when every field is less-or-equal and at least one strictly less.
C1_GreaterIffAllGeqSomeGreater ==
    Compared =>
        /\ (ordRes = "Greater") <=> (AllGeq /\ SomeGreater)
        /\ (ordRes = "Less") <=> (AllLeq /\ SomeLess)

\* C2: a strictly-less field together with a strictly-greater field yields
\* None, whatever their positions and whatever the other fields compare to.
C2_MixedYieldsNone ==
    (Compared /\ SomeLess /\ SomeGreater) => ordRes = "None"

C2_Witness ==
    /\ ordRes = "None"
    /\ FieldOrd(1) = "Less" /\ FieldOrd(NumFields) = "Greater"
    /\ ~SomeNone

\* C3: if partial_cmp of any single field pair is None, partial_cmp of the
\* structs is None, whichever field it is and however the others compare.
C3_FieldNoneYieldsNone ==
    (Compared /\ SomeNone) => ordRes = "None"

C3_Witness ==
    /\ ordRes = "None"
    /\ FieldOrd(NumFields) = "None"
    /\ \A i \in 1..(NumFields - 1) : FieldOrd(i) = "Equal"

\* C4: partial_cmp(a, b) is Some(Equal) exactly when every field pair compares
\* Equal; it is never Equal when some field differs.
C4_EqualIffAllEqual ==
    Compared => ((ordRes = "Equal") <=> AllEqual)

C4_Witness ==
    /\ ordRes = "Equal"
    /\ AllEqual
    /\ \E i \in 1..NumFields : ordA[i] # 0

(***************************************************************************)
(* Host event loop, CPU thread and periodic timer: src/src/main.rs         *)
(***************************************************************************)
MaxEvents == 2      \* GBEvents the event loop sends before the final Resume
MaxFrames == 3      \* frames the emulated program produces
WaitTicks == 2      \* run_cpu's waitticks, scaled down
MaxCycle == 2       \* largest cycle count returned by one do_cycle, scaled down
FrameCap == 1       \* mpsc::sync_channel(1)
MaxBatches == 3     \* batches over which the cycle account is kept
TicksModulus == 16  \* ticks is a u32 and wraps at 2^32, scaled down

Keys == {"A"}
KeyEvents == [t : {"KeyUp", "KeyDown"}, k : Keys]
PlainEvents == [t : {"SpeedUp", "SpeedDown", "Pause", "Resume", "LoadPlugin",
                     "RunPlugin"}, k : {"none"}]
GBEvent == KeyEvents \cup PlainEvents
Ev(type) == [t |-> type, k |-> "none"]

IsKey(e) == e.t \in {"KeyUp", "KeyDown"}

\* the host thread still owns sender1 (it is dropped when real_main ends)
Sender1Alive == hpc # "finished"
\* the CPU thread still owns receiver1, sender2 and the periodic receiver
CpuAlive == pc # "done"

\* faulty variant: the channel accepts the message whatever it already holds
try_send_unbounded(ch, data) == Append(ch, data)

\* SyncSender::try_send on a connected channel: the new contents (Full drops data)
try_send(ch, data) == IF Len(ch) < FrameCap THEN Append(ch, data) ELSE ch

\* faulty variant: the received frame is left in the channel
recv_rest_peek(ch) == ch

\* Receiver::recv / try_recv returning Ok(Head(ch)): what stays in the channel
recv_rest(ch) == Tail(ch)

\* Sender::send on the event channel; the error of a disconnected channel is ignored
send(ch, e) == IF CpuAlive THEN Append(ch, e) ELSE ch

InitThreads ==
    /\ hpc = "pump" /\ paused = FALSE /\ evChan = <<>> /\ frameChan = <<>>
    /\ rxDropped = FALSE /\ nSent = 0 /\ sentKeys = <<>> /\ received = <<>> /\ hungup = FALSE
    /\ test_mode = FALSE /\ exitcode = NoExit /\ warned = "none" /\ window = TRUE
    /\ pc = "loop" /\ ticks = 0 /\ limit_speed = TRUE /\ plugin_table = FALSE
    /\ produced = 0 /\ curFrame = 0 /\ takenKeys = <<>> /\ applied = <<>>
    /\ trySends = 0 /\ droppedFrames = {} /\ begunAfterDrop = FALSE
    /\ sendAfterDrop = FALSE /\ deviceCallers = {} /\ batch = 0 /\ AcctOff /\ tpc = "sleep"
    /\ ordA = <<>> /\ ordB = <<>> /\ ordRes = "unset"
    /\ AudioIdle /\ CoreIdle

cpuHist == <<takenKeys, applied, trySends, droppedFrames, begunAfterDrop, sendAfterDrop,
             deviceCallers>>
cpuOnly == <<pc, ticks, limit_speed, plugin_table, produced, curFrame, cpuHist, batch, acct>>

(* ---------------- host thread: real_main, lines 231-317 ---------------- *)

\* faulty variant: the host applies a key event to the Device itself instead of
\* sending it
HostSendDirect(e) ==
    /\ hpc = "pump"
    /\ nSent < MaxEvents
    /\ e.t = "Pause" => ~paused
    /\ e.t = "Resume" => paused
    /\ evChan' = IF IsKey(e) THEN evChan ELSE send(evChan, e)
    /\ applied' = IF IsKey(e) THEN Append(applied, e) ELSE applied
    /\ takenKeys' = IF IsKey(e) THEN Append(takenKeys, e) ELSE takenKeys
    /\ deviceCallers' = IF IsKey(e) THEN deviceCallers \cup {"main"} ELSE deviceCallers
    /\ paused' = IF e.t \in {"Pause", "Resume"} THEN ~paused ELSE paused
    /\ nSent' = nSent + 1
    /\ sentKeys' = IF IsKey(e) /\ CpuAlive THEN Append(sentKeys, e) ELSE sentKeys
    /\ UNCHANGED <<hpc, frameChan, rxDropped, received, hungup, pc, ticks, limit_speed,
                   plugin_table, produced, curFrame, trySends, droppedFrames,
                   begunAfterDrop, sendAfterDrop, batch, acct, tpc, startVars, ordVars,
                   audioVars, coreVars>>

\* faulty variant: the paused flag is not toggled when Pause or Resume is sent
HostSendNoToggle(e) ==
    /\ hpc = "pump"
    /\ nSent < MaxEvents
    /\ e.t = "Pause" => ~paused
    /\ e.t = "Resume" => paused
    /\ evChan' = send(evChan, e)
    /\ nSent' = nSent + 1
    /\ sentKeys' = IF IsKey(e) /\ CpuAlive THEN Append(sentKeys, e) ELSE sentKeys
    /\ UNCHANGED <<hpc, paused, frameChan, rxDropped, received, hungup, cpuOnly, tpc, startVars,
                   ordVars, audioVars, coreVars>>

\* the keyboard handlers of the pump_events callback that send a GBEvent
HostSend(e) ==
    /\ hpc = "pump"
    /\ nSent < MaxEvents
    /\ e.t = "Pause" => ~paused
    /\ e.t = "Resume" => paused
    /\ evChan' = send(evChan, e)
    /\ paused' = IF e.t \in {"Pause", "Resume"} THEN ~paused ELSE paused
    /\ nSent' = nSent + 1
    /\ sentKeys' = IF IsKey(e) /\ CpuAlive THEN Append(sentKeys, e) ELSE sentKeys
    /\ UNCHANGED <<hpc, frameChan, rxDropped, received, hungup, cpuOnly, tpc, startVars, ordVars,
                   audioVars, coreVars>>

\* CloseRequested or Escape: elwt.exit(), PumpStatus::Exit, break 'evloop
HostExit ==
    /\ hpc = "pump"
    /\ hpc' = "exit"
    /\ UNCHANGED <<paused, evChan, frameChan, rxDropped, nSent, sentKeys, received, hungup,
                   cpuOnly, tpc, startVars, ordVars, audioVars, coreVars>>

\* pump_events returns without Exit
HostPumpDone ==
    /\ hpc = "pump"
    /\ hpc' = "recvframe"
    /\ UNCHANGED <<paused, evChan, frameChan, rxDropped, nSent, sentKeys, received, hungup,
                   cpuOnly, tpc, startVars, ordVars, audioVars, coreVars>>

\* if paused { receiver2.try_recv() } followed by recalculate_screen
HostTryRecv ==
    /\ hpc = "recvframe"
    /\ paused
    /\ IF frameChan # <<>>
       THEN /\ received' = Append(received, Head(frameChan))
            /\ frameChan' = recv_rest(frameChan)
            /\ hpc' = "pump"
            /\ UNCHANGED hungup
       ELSE /\ hpc' = IF CpuAlive THEN "pump" ELSE "exit"
            /\ hungup' = ~CpuAlive
            /\ UNCHANGED <<received, frameChan>>
    /\ UNCHANGED <<paused, evChan, rxDropped, nSent, sentKeys, cpuOnly, tpc,
                   startVars, ordVars, audioVars, coreVars>>

\* faulty variant: recv keeps blocking on an empty channel whose sender is gone
HostRecvBlocking ==
    /\ hpc = "recvframe"
    /\ ~paused
    /\ frameChan # <<>>
    /\ received' = Append(received, Head(frameChan))
    /\ frameChan' = recv_rest(frameChan)
    /\ hpc' = "pump"
    /\ UNCHANGED <<hungup, paused, evChan, rxDropped, nSent, sentKeys, cpuOnly, tpc,
                   startVars, ordVars, audioVars, coreVars>>

\* else { receiver2.recv() } followed by recalculate_screen; blocks while the
\* channel is empty and the CPU thread holds sender2
HostRecv ==
    /\ hpc = "recvframe"
    /\ ~paused
    /\ IF frameChan # <<>>
       THEN /\ received' = Append(received, Head(frameChan))
            /\ frameChan' = recv_rest(frameChan)
            /\ hpc' = "pump"
            /\ UNCHANGED hungup
       ELSE /\ ~CpuAlive
            /\ hpc' = "exit"
            /\ hungup' = TRUE
            /\ UNCHANGED <<received, frameChan>>
    /\ UNCHANGED <<paused, evChan, rxDropped, nSent, sentKeys, cpuOnly, tpc,
                   startVars, ordVars, audioVars, coreVars>>

\* let _ = sender1.send(GBEvent::Resume)
HostFinalResume ==
    /\ hpc = "exit"
    /\ evChan' = send(evChan, Ev("Resume"))
    /\ hpc' = "drop"
    /\ UNCHANGED <<paused, frameChan, rxDropped, nSent, sentKeys, received, hungup,
                   cpuOnly, tpc, startVars, ordVars, audioVars, coreVars>>

\* drop(receiver2): a frame still buffered is dropped with the channel
HostDrop ==
    /\ hpc = "drop"
    /\ rxDropped' = TRUE
    /\ frameChan' = <<>>
    /\ hpc' = "join"
    /\ UNCHANGED <<paused, evChan, nSent, sentKeys, received, hungup, cpuOnly, tpc,
                   startVars, ordVars, audioVars, coreVars>>

\* cputhread.join() returns, real_main returns EXITCODE_SUCCESS
HostJoin ==
    /\ hpc = "join"
    /\ ~CpuAlive
    /\ hpc' = "finished"
    /\ exitcode' = EXITCODE_SUCCESS
    /\ UNCHANGED <<paused, evChan, frameChan, rxDropped, nSent, sentKeys, received, hungup,
                   cpuOnly, tpc, test_mode, warned, window, ordVars, audioVars, coreVars>>

(* ---------------- CPU thread: run_cpu, lines 467-538 ---------------- *)

hostOnly == <<hpc, paused, rxDropped, nSent, sentKeys, received, hungup, startVars>>

\* the cycle account is kept for the first MaxBatches batches
Counted == counting /\ nBatches < MaxBatches

\* faulty variant: the cycles executed beyond waitticks are dropped
CpuLoopNoCarry ==
    /\ pc = "loop"
    /\ IF ticks < WaitTicks
       THEN /\ pc' = "incycle"
            /\ begunAfterDrop' = (begunAfterDrop \/ rxDropped)
            /\ deviceCallers' = deviceCallers \cup {"cpu"}
            /\ UNCHANGED <<ticks, batch, acct>>
       ELSE /\ ticks' = 0
            /\ batch' = 0
            /\ nBatches' = IF Counted THEN nBatches + 1 ELSE nBatches
            /\ pc' = "recv"
            /\ UNCHANGED <<begunAfterDrop, deviceCallers, counting, total>>
    /\ UNCHANGED <<limit_speed, plugin_table, produced, curFrame, takenKeys, applied,
                   trySends, droppedFrames, sendAfterDrop, tpc,
                   hostOnly, evChan, frameChan, ordVars, audioVars, coreVars>>

\* while ticks < waitticks { .. } ticks -= waitticks;
CpuLoop ==
    /\ pc = "loop"
    /\ IF ticks < WaitTicks
       THEN /\ pc' = "incycle"
            /\ begunAfterDrop' = (begunAfterDrop \/ rxDropped)
            /\ deviceCallers' = deviceCallers \cup {"cpu"}
            /\ UNCHANGED <<ticks, batch, acct>>
       ELSE /\ ticks' = (ticks - WaitTicks) % TicksModulus
            /\ batch' = 0
            /\ nBatches' = IF Counted THEN nBatches + 1 ELSE nBatches
            /\ pc' = "recv"
            /\ UNCHANGED <<begunAfterDrop, deviceCallers, counting, total>>
    /\ UNCHANGED <<limit_speed, plugin_table, produced, curFrame, takenKeys, applied,
                   trySends, droppedFrames, sendAfterDrop, tpc,
                   hostOnly, evChan, frameChan, ordVars, audioVars, coreVars>>

\* faulty variant: the instruction step itself polls the event channel and applies
\* a pending key event
DoCyclePolling ==
    /\ pc = "incycle"
    /\ \E c \in 1..MaxCycle :
        /\ ticks' = ticks + c
        /\ batch' = batch + c
        /\ total' = IF Counted THEN total + c ELSE total
        /\ pc' = "loop"
    /\ IF evChan # <<>> /\ IsKey(Head(evChan))
       THEN /\ evChan' = Tail(evChan)
            /\ takenKeys' = Append(takenKeys, Head(evChan))
            /\ applied' = Append(applied, Head(evChan))
       ELSE UNCHANGED <<evChan, takenKeys, applied>>
    /\ UNCHANGED <<limit_speed, plugin_table, produced, curFrame, trySends,
                   droppedFrames, begunAfterDrop, sendAfterDrop, deviceCallers, tpc,
                   counting, nBatches,
                   hostOnly, frameChan, ordVars, audioVars, coreVars>>

\* ticks += cpu.do_cycle(); if cpu.check_and_reset_gpu_updated() { data = .. }
\* The Device decides the cycle count and whether a frame became ready.
DoCycle ==
    /\ pc = "incycle"
    /\ \E c \in 1..MaxCycle, updated \in BOOLEAN :
        /\ updated => produced < MaxFrames
        /\ ticks' = ticks + c
        /\ batch' = batch + c
        /\ total' = IF Counted THEN total + c ELSE total
        /\ IF updated
           THEN /\ produced' = produced + 1
                /\ curFrame' = produced + 1
                /\ pc' = "send"
           ELSE /\ pc' = "loop"
                /\ UNCHANGED <<produced, curFrame>>
    /\ UNCHANGED <<limit_speed, plugin_table, cpuHist, tpc, counting, nBatches,
                   hostOnly, evChan, frameChan, ordVars, audioVars, coreVars>>

\* faulty variant: a disconnected channel is treated like a full one
TrySendIgnoreDisconnected ==
    /\ pc = "send"
    /\ trySends' = trySends + 1
    /\ sendAfterDrop' = (sendAfterDrop \/ rxDropped)
    /\ curFrame' = 0
    /\ pc' = "loop"
    /\ IF rxDropped
       THEN UNCHANGED <<frameChan, droppedFrames>>
       ELSE /\ frameChan' = try_send(frameChan, curFrame)
            /\ droppedFrames' = IF Len(frameChan) < FrameCap THEN droppedFrames
                                ELSE droppedFrames \cup {curFrame}
    /\ UNCHANGED <<ticks, limit_speed, plugin_table, produced, takenKeys, applied,
                   begunAfterDrop, deviceCallers, batch, acct, tpc, hostOnly, evChan,
                   ordVars, audioVars, coreVars>>

\* if let Err(TrySendError::Disconnected(..)) = sender.try_send(data) { break 'outer }
TrySend ==
    /\ pc = "send"
    /\ trySends' = trySends + 1
    /\ sendAfterDrop' = (sendAfterDrop \/ rxDropped)
    /\ curFrame' = 0
    /\ IF rxDropped
       THEN /\ pc' = "done"
            /\ UNCHANGED <<frameChan, droppedFrames>>
       ELSE /\ frameChan' = try_send(frameChan, curFrame)
            /\ droppedFrames' = IF Len(frameChan) < FrameCap THEN droppedFrames
                                ELSE droppedFrames \cup {curFrame}
            /\ pc' = "loop"
    /\ UNCHANGED <<ticks, limit_speed, plugin_table, produced, takenKeys, applied,
                   begunAfterDrop, deviceCallers, batch, acct, tpc, hostOnly, evChan,
                   ordVars, audioVars, coreVars>>

\* match receiver.try_recv() { Ok(event) => match event { .. } } for one event.
\* LoadPlugin and a loaded RunPlugin unwrap results of the file system and of
\* the Lua executor: they either succeed or panic, which ends the thread.
HandleEvent(e) ==
    /\ evChan' = Tail(evChan)
    /\ takenKeys' = IF IsKey(e) THEN Append(takenKeys, e) ELSE takenKeys
    /\ applied' = IF IsKey(e) THEN Append(applied, e) ELSE applied
    /\ deviceCallers' = IF IsKey(e) \/ e.t = "SpeedDown"
                        THEN deviceCallers \cup {"cpu"}
                        ELSE deviceCallers
    /\ limit_speed' = IF e.t = "SpeedUp" THEN FALSE
                      ELSE IF e.t = "SpeedDown" THEN TRUE
                      ELSE limit_speed
    /\ \E ok \in BOOLEAN :
        /\ ~ok => (e.t = "LoadPlugin" \/ (e.t = "RunPlugin" /\ plugin_table))
        /\ plugin_table' = (plugin_table \/ (e.t = "LoadPlugin" /\ ok))
        /\ pc' = IF ~ok THEN "done"
                 ELSE IF e.t = "Pause" THEN "paused"
                 ELSE "recv"

\* one iteration of 'recv: loop { match receiver.try_recv() { .. } }
CpuTryRecv ==
    /\ pc = "recv"
    /\ IF evChan # <<>>
       THEN HandleEvent(Head(evChan))
       ELSE /\ pc' = IF ~Sender1Alive THEN "done"
                     ELSE IF limit_speed THEN "wait"
                     ELSE "loop"
            /\ UNCHANGED <<evChan, takenKeys, applied, limit_speed, plugin_table,
                           deviceCallers>>
    /\ UNCHANGED <<ticks, produced, curFrame, trySends, droppedFrames, begunAfterDrop,
                   sendAfterDrop, batch, acct, tpc, hostOnly, frameChan, ordVars, audioVars, coreVars>>

\* faulty variant: key events received while paused are applied to the Device
PauseCpuApplying ==
    /\ pc = "paused"
    /\ IF evChan # <<>>
       THEN /\ evChan' = Tail(evChan)
            /\ takenKeys' = IF IsKey(Head(evChan)) THEN Append(takenKeys, Head(evChan))
                            ELSE takenKeys
            /\ applied' = IF IsKey(Head(evChan)) THEN Append(applied, Head(evChan))
                          ELSE applied
            /\ pc' = IF Head(evChan).t = "Resume" THEN "recv" ELSE "paused"
       ELSE /\ ~Sender1Alive
            /\ pc' = "recv"
            /\ UNCHANGED <<evChan, takenKeys, applied>>
    /\ UNCHANGED <<ticks, limit_speed, plugin_table, produced, curFrame,
                   trySends, droppedFrames, begunAfterDrop, sendAfterDrop,
                   deviceCallers, batch, acct, tpc, hostOnly, frameChan, ordVars, audioVars, coreVars>>

\* one iteration of pause_cpu's loop { match receiver.recv() { .. } }; recv
\* blocks while the channel is empty and sender1 is alive
PauseCpu ==
    /\ pc = "paused"
    /\ IF evChan # <<>>
       THEN /\ evChan' = Tail(evChan)
            /\ takenKeys' = IF IsKey(Head(evChan)) THEN Append(takenKeys, Head(evChan))
                            ELSE takenKeys
            /\ pc' = IF Head(evChan).t = "Resume" THEN "recv" ELSE "paused"
       ELSE /\ ~Sender1Alive
            /\ pc' = "recv"
            /\ UNCHANGED <<evChan, takenKeys>>
    /\ UNCHANGED <<ticks, limit_speed, plugin_table, produced, curFrame, applied,
                   trySends, droppedFrames, begunAfterDrop, sendAfterDrop,
                   deviceCallers, batch, acct, tpc, hostOnly, frameChan, ordVars, audioVars, coreVars>>

\* faulty variant: the tick is polled (try_recv) instead of awaited
CpuWaitPolling ==
    /\ pc = "wait"
    /\ pc' = "loop"
    /\ tpc' = IF tpc = "send" THEN "sleep" ELSE tpc
    /\ UNCHANGED <<ticks, limit_speed, plugin_table, produced, curFrame, cpuHist, batch, acct,
                   hostOnly, evChan, frameChan, ordVars, audioVars, coreVars>>

\* if limit_speed { let _ = periodic.recv(); }: rendezvous with tx.send(())
CpuWait ==
    /\ pc = "wait"
    /\ tpc \in {"send", "done"}
    /\ pc' = "loop"
    /\ tpc' = IF tpc = "send" THEN "sleep" ELSE tpc
    /\ UNCHANGED <<ticks, limit_speed, plugin_table, produced, curFrame, cpuHist, batch, acct,
                   hostOnly, evChan, frameChan, ordVars, audioVars, coreVars>>

(* ---------------- timer thread: timer_periodic, lines 540-549 ---------- *)

\* std::thread::sleep(d) returns; the thread enters tx.send(())
TimerSleep ==
    /\ tpc = "sleep"
    /\ tpc' = "send"
    /\ UNCHANGED <<cpuOnly, hostVars, ordVars, audioVars, coreVars>>

\* tx.send(()) fails once run_cpu has returned and dropped `periodic`
TimerStop ==
    /\ tpc = "send"
    /\ ~CpuAlive
    /\ tpc' = "done"
    /\ UNCHANGED <<cpuOnly, hostVars, ordVars, audioVars, coreVars>>

Next ==
    \/ \E e \in GBEvent : HostSend(e)
    \/ HostExit
    \/ HostPumpDone
    \/ HostTryRecv
    \/ HostRecv
    \/ HostFinalResume
    \/ HostDrop
    \/ HostJoin
    \/ CpuLoop
    \/ DoCycle
    \/ TrySend
    \/ CpuTryRecv
    \/ PauseCpu
    \/ CpuWait
    \/ TimerSleep
    \/ TimerStop

Spec == InitThreads /\ [][Next]_vars

\* the steps of each thread
HostNext ==
    \/ \E e \in GBEvent : HostSend(e)
    \/ HostExit
    \/ HostPumpDone
    \/ HostTryRecv
    \/ HostRecv
    \/ HostFinalResume
    \/ HostDrop
    \/ HostJoin
CpuNext == CpuLoop \/ DoCycle \/ TrySend \/ CpuTryRecv \/ PauseCpu \/ CpuWait
TimerNext == TimerSleep \/ TimerStop

\* the threads under a fair scheduler: a thread that can take a step does
\* not wait forever
SpecFair ==
    /\ Spec
    /\ WF_vars(HostNext)
    /\ WF_vars(CpuNext)
    /\ WF_vars(TimerNext)

\* C21: once the host has left its event loop it sends the final Resume,
\* drops the frame receiver and joins; under fair scheduling the CPU thread
\* then terminates and the join returns, also when the CPU thread was paused
\* and also when the emulated program produces no further frame.
C21_JoinReturns ==
    (hpc = "exit") ~> (hpc = "finished" /\ pc = "done")

\* C22: once the CPU thread has ended and dropped the frame sender, a frame
\* receive of the host takes the one frame still buffered or fails and
\* leaves the event loop, with try_recv (paused) as with recv (not paused);
\* under fair scheduling the host leaves its loop.
C22_HostLeavesAfterHangup ==
    /\ [][(~CpuAlive /\ hpc = "recvframe" /\ hpc' # hpc) =>
            IF frameChan # <<>>
            THEN /\ Len(frameChan) = 1
                 /\ received' = Append(received, Head(frameChan))
                 /\ frameChan' = <<>>
                 /\ hpc' = "pump"
            ELSE /\ hpc' = "exit"
                 /\ hungup']_vars
    /\ [][(~CpuAlive /\ ~rxDropped) => frameChan' \in {frameChan, <<>>}]_vars
    /\ (~CpuAlive /\ hpc \in {"pump", "recvframe"}) ~> (hpc = "exit")

C22_Witness ==
    /\ hungup
    /\ hpc = "exit"
    /\ ~CpuAlive
    /\ paused
    /\ received # <<>>

\* the same threads, with the cycle account of run_cpu kept
InitTicks ==
    /\ hpc = "pump" /\ paused = FALSE /\ evChan = <<>> /\ frameChan = <<>>
    /\ rxDropped = FALSE /\ nSent = 0 /\ sentKeys = <<>> /\ received = <<>> /\ hungup = FALSE
    /\ test_mode = FALSE /\ exitcode = NoExit /\ warned = "none" /\ window = TRUE
    /\ pc = "loop" /\ ticks = 0 /\ limit_speed = TRUE /\ plugin_table = FALSE
    /\ produced = 0 /\ curFrame = 0 /\ takenKeys = <<>> /\ applied = <<>>
    /\ trySends = 0 /\ droppedFrames = {} /\ begunAfterDrop = FALSE
    /\ sendAfterDrop = FALSE /\ deviceCallers = {} /\ batch = 0 /\ tpc = "sleep"
    /\ counting = TRUE /\ total = 0 /\ nBatches = 0
    /\ ordA = <<>> /\ ordB = <<>> /\ ordRes = "unset"
    /\ AudioIdle /\ CoreIdle

SpecTicks == InitTicks /\ [][Next]_vars

\* C23: ticks -= waitticks is executed only when ticks >= waitticks, so the
\* u32 counter does not wrap; what was executed beyond waitticks is carried
\* into the next batch, so a batch starts with ticks below the cycle count of
\* one do_cycle, and after k batches the cycles executed differ from
\* k * waitticks by exactly that carry, less than one instruction.
C23_CarryKeepsCycleAccount ==
    [][(pc = "loop" /\ pc' = "recv" /\ nBatches' = nBatches + 1) =>
            /\ ticks >= WaitTicks
            /\ ticks' = ticks - WaitTicks
            /\ ticks' < MaxCycle
            /\ total - nBatches' * WaitTicks = ticks'
            /\ total - nBatches' * WaitTicks \in 0..(MaxCycle - 1)]_vars

C23_Witness ==
    /\ counting
    /\ nBatches = MaxBatches
    /\ pc = "recv"
    /\ ticks = MaxCycle - 1
    /\ total = MaxBatches * WaitTicks + MaxCycle - 1

TypeOK ==
    /\ hpc \in {"main", "audio", "window", "spawn", "test", "exited",
               "pump", "recvframe", "exit", "drop", "join", "finished"}
    /\ exitcode \in {NoExit, EXITCODE_SUCCESS, EXITCODE_CPULOADFAILS}
    /\ test_mode \in BOOLEAN /\ window \in BOOLEAN
    /\ deviceCallers \subseteq {"cpu", "main"}
    /\ pc \in {"idle", "loop", "incycle", "send", "recv", "paused", "wait", "done"}
    /\ tpc \in {"idle", "sleep", "send", "done"}
    /\ ticks \in 0..(WaitTicks + MaxCycle - 1)
    /\ batch \in 0..ticks
    /\ produced \in 0..MaxFrames
    /\ nSent \in 0..MaxEvents

(***************************************************************************)
(* Claims about the host / CPU thread channels                             *)
(***************************************************************************)
IsPrefix(s, t) == Len(s) <= Len(t) /\ SubSeq(t, 1, Len(s)) = s
KeysOf(ch) == SelectSeq(ch, IsKey)

\* C5: every KeyDown / KeyUp event sent on the event channel is applied to
\* the Device exactly once and in the order sent; none is discarded, also not
\* while the CPU thread is paused: the key events the CPU thread has taken out
\* of the channel are exactly the ones it applied, in the order they were sent.
C5_KeyEventsNeverDiscarded ==
    /\ applied = takenKeys
    /\ IsPrefix(takenKeys, sentKeys)

\* C6 (as claimed): an input event is applied only between two do_cycle
\* calls, and no do_cycle begins while a sent key event is still unapplied.
C6_AppliedBeforeNextInstruction ==
    [][/\ applied' # applied => pc = "recv"
       /\ (pc # "incycle" /\ pc' = "incycle") => KeysOf(evChan) = <<>>]_vars

\* C6 (amended): an input event is applied only between two do_cycle calls,
\* never during one, and only by the event polling that follows a batch of
\* at least waitticks cycles: the event applied is the head of the channel.
C6_AppliedOnlyWhenPolling ==
    [][applied' # applied =>
         /\ pc = "recv" /\ pc' = "recv"
         /\ ticks < MaxCycle
         /\ evChan # <<>>
         /\ applied' = Append(applied, Head(evChan))]_vars

C6_Witness ==
    /\ applied # <<>>
    /\ pc = "recv"
    /\ KeysOf(evChan) # <<>>

\* C7 (as claimed): once the host has dropped the frame receiver no further
\* do_cycle begins.
C7_NoCycleAfterDrop == ~begunAfterDrop

\* C7 (amended): once the host has dropped the frame receiver, the CPU thread
\* stops at the first try_send it makes afterwards, that is after the next
\* do_cycle that completes a frame; it executes nothing after that try_send.
C7_StopsAtNextTrySend ==
    /\ [](sendAfterDrop => pc = "done")
    /\ [][pc = "done" => pc' = "done"]_vars

C7_Witness ==
    /\ rxDropped /\ sendAfterDrop /\ begunAfterDrop
    /\ pc = "done"

\* C8: the frames the host receives are an order-preserving subsequence of
\* the frames the CPU thread produced: none twice, none before an earlier one.
C8_FramesInProductionOrder ==
    /\ \A i \in DOMAIN received : received[i] \in 1..produced
    /\ \A i, j \in DOMAIN received : i < j => received[i] < received[j]

C8_Witness ==
    /\ Len(received) >= 2
    /\ received[2] > received[1] + 1
    /\ received[1] + 1 \in droppedFrames

\* C9: the frame channel holds at most one frame; every frame-ready do_cycle
\* is followed by exactly one try_send, which never blocks; when the channel
\* is full the newest frame is dropped and the CPU thread goes on.
C9_TrySendNeverBlocks ==
    /\ [](Len(frameChan) <= 1)
    /\ [](trySends + (IF pc = "send" THEN 1 ELSE 0) = produced)
    /\ [](pc = "send" => ENABLED TrySend)
    /\ [][(trySends' # trySends /\ Len(frameChan) = 1 /\ ~rxDropped) =>
            /\ frameChan' = frameChan
            /\ droppedFrames' = droppedFrames \cup {curFrame}
            /\ pc' = "loop"]_vars

C9_Witness ==
    /\ droppedFrames # {}
    /\ Len(frameChan) = 1
    /\ pc = "incycle"

(***************************************************************************)
(* Start-up: real_main lines 110-231, construct_cpu, run_test_mode          *)
(***************************************************************************)
\* the message of the Err returned by Device::new / Device::new_cgb
LoadErr(classic_mode) == IF classic_mode THEN "Device::new: Err" ELSE "Device::new_cgb: Err"
LoadErrs == {LoadErr(TRUE), LoadErr(FALSE)}
AudioErr == "Could not open audio device"

loopVars == <<paused, evChan, frameChan, rxDropped, nSent, sentKeys, received, hungup>>

\* real_main after the command line has been parsed
InitStart ==
    /\ hpc = "main"
    /\ test_mode \in BOOLEAN
    /\ exitcode = NoExit /\ warned = "none" /\ window = FALSE
    /\ paused = FALSE /\ evChan = <<>> /\ frameChan = <<>>
    /\ rxDropped = FALSE /\ nSent = 0 /\ sentKeys = <<>> /\ received = <<>> /\ hungup = FALSE
    /\ ordA = <<>> /\ ordB = <<>> /\ ordRes = "unset"
    /\ CpuIdle /\ AudioIdle /\ CoreIdle

\* faulty variant: a failed construction is reported but start-up goes on
ConstructCpuContinue ==
    /\ hpc = "main"
    /\ ~test_mode
    /\ \E classic_mode \in BOOLEAN, ok \in BOOLEAN :
        /\ warned' = IF ok THEN warned ELSE LoadErr(classic_mode)
        /\ hpc' = "audio"
        /\ UNCHANGED exitcode
    /\ UNCHANGED <<test_mode, window, loopVars, cpuVars, ordVars, audioVars, coreVars>>

\* let cpu = construct_cpu(..); let Some(mut cpu) = cpu else { return
\* EXITCODE_CPULOADFAILS }; construct_cpu warns and returns None on Err
ConstructCpu ==
    /\ hpc = "main"
    /\ ~test_mode
    /\ \E classic_mode \in BOOLEAN, ok \in BOOLEAN :
        IF ok
        THEN /\ hpc' = "audio"
             /\ UNCHANGED <<warned, exitcode>>
        ELSE /\ warned' = LoadErr(classic_mode)
             /\ exitcode' = EXITCODE_CPULOADFAILS
             /\ hpc' = "exited"
    /\ UNCHANGED <<test_mode, window, loopVars, cpuVars, ordVars, audioVars, coreVars>>

\* if opt_audio { match CpalPlayer::get() { Some(..) => .., None => { warn(..);
\* return EXITCODE_CPULOADFAILS } } }
OpenAudio ==
    /\ hpc = "audio"
    /\ \E opt_audio \in BOOLEAN, found \in BOOLEAN :
        IF opt_audio /\ ~found
        THEN /\ warned' = AudioErr
             /\ exitcode' = EXITCODE_CPULOADFAILS
             /\ hpc' = "exited"
        ELSE /\ hpc' = "window"
             /\ UNCHANGED <<warned, exitcode>>
    /\ UNCHANGED <<test_mode, window, loopVars, cpuVars, ordVars, audioVars, coreVars>>

\* the two channels, the event loop and SimpleWindowBuilder::new()..build(..)
CreateWindow ==
    /\ hpc = "window"
    /\ window' = TRUE
    /\ hpc' = "spawn"
    /\ UNCHANGED <<test_mode, exitcode, warned, loopVars, cpuVars, ordVars, audioVars, coreVars>>

\* let cputhread = thread::spawn(move || run_cpu(cpu, sender2, receiver1));
\* run_cpu starts the timer thread before its loop
SpawnCpu ==
    /\ hpc = "spawn"
    /\ hpc' = "pump"
    /\ pc' = "loop"
    /\ tpc' = "sleep"
    /\ UNCHANGED <<startVars, loopVars, ticks, limit_speed, plugin_table, produced,
                   curFrame, cpuHist, batch, acct, ordVars, audioVars, coreVars>>

\* run_test_mode up to its loop: Err => { warn(errmsg); return
\* EXITCODE_CPULOADFAILS }
RunTestMode ==
    /\ hpc = "main"
    /\ test_mode
    /\ \E classic_mode \in BOOLEAN, ok \in BOOLEAN :
        IF ok
        THEN /\ hpc' = "test"
             /\ UNCHANGED <<warned, exitcode>>
        ELSE /\ warned' = LoadErr(classic_mode)
             /\ exitcode' = EXITCODE_CPULOADFAILS
             /\ hpc' = "exited"
    /\ UNCHANGED <<test_mode, window, loopVars, cpuVars, ordVars, audioVars, coreVars>>

\* one iteration of the loop of run_test_mode: b'q' or a closed stdin break,
\* anything else is followed by 1000 do_cycle calls on the main thread
TestLoop ==
    /\ hpc = "test"
    /\ \E stdin \in {"q", "s", "other", "Empty", "Disconnected"} :
        IF stdin \in {"q", "Disconnected"}
        THEN /\ hpc' = "exited"
             /\ exitcode' = EXITCODE_SUCCESS
             /\ UNCHANGED deviceCallers
        ELSE /\ deviceCallers' = deviceCallers \cup {"main"}
             /\ UNCHANGED <<hpc, exitcode>>
    /\ UNCHANGED <<test_mode, warned, window, loopVars, pc, ticks, limit_speed,
                   plugin_table, produced, curFrame, takenKeys, applied, trySends,
                   droppedFrames, begunAfterDrop, sendAfterDrop, batch, acct, tpc,
                   ordVars, audioVars, coreVars>>

NextStart ==
    \/ ConstructCpu
    \/ OpenAudio
    \/ CreateWindow
    \/ SpawnCpu
    \/ RunTestMode
    \/ TestLoop
    \/ Next

SpecStart == InitStart /\ [][NextStart]_vars

\* C13: when Device::new / Device::new_cgb returns Err, in normal mode and in
\* test mode alike, the message is printed and the process ends with exit
\* code 2 without any do_cycle, without a window and without a CPU thread.
C13_LoadFailureExitsWith2 ==
    /\ [][(hpc = "main" /\ hpc' = "exited") =>
            /\ warned' \in LoadErrs
            /\ exitcode' = EXITCODE_CPULOADFAILS
            /\ exitcode' = 2]_vars
    /\ [][(warned \notin LoadErrs /\ warned' \in LoadErrs) =>
            (hpc = "main" /\ hpc' = "exited")]_vars
    /\ [](warned \in LoadErrs =>
            /\ hpc = "exited"
            /\ exitcode = 2
            /\ deviceCallers = {}
            /\ ~window
            /\ pc = "idle" /\ tpc = "idle")

C13_Witness ==
    /\ warned \in LoadErrs
    /\ test_mode
    /\ hpc = "exited"

\* C12 (as stated): every run of the inner while loop of run_cpu executes at
\* least waitticks cycles before the CPU thread goes on to poll and wait.
C12_BatchAtLeastWaitTicks ==
    [][(pc = "loop" /\ pc' = "recv") => batch >= WaitTicks]_vars

\* C12 (amended): a batch ends when the ticks counter, which starts at the
\* cycles carried over from the previous batch, reaches waitticks; while
\* limit_speed is on the CPU thread then waits for exactly one tick of the
\* rendezvous timer, which sleeps a full period again after handing it over;
\* with limit_speed off it goes back to the next batch without waiting.
C12_WaitsOneTickPerBatch ==
    /\ [](pc = "wait" => limit_speed)
    /\ [][(pc = "loop" /\ pc' = "recv") =>
            /\ ticks >= WaitTicks
            /\ ticks' = ticks - WaitTicks]_vars
    /\ [][(pc = "recv" /\ pc' \notin {"recv", "paused", "done"}) =>
            /\ evChan = <<>>
            /\ pc' = IF limit_speed THEN "wait" ELSE "loop"]_vars
    /\ [][(pc = "wait" /\ pc' # "wait") =>
            /\ pc' = "loop"
            /\ tpc = "send"
            /\ tpc' = "sleep"]_vars
    /\ [][(tpc # "send" /\ tpc' = "send") => (tpc = "sleep" /\ pc' = pc)]_vars

C12_Witness ==
    /\ pc = "wait"
    /\ tpc = "sleep"
    /\ ticks > 0
    /\ produced > 0

\* C19: between taking Pause and taking Resume (or the disconnection of the
\* event channel) the CPU thread runs no do_cycle, sends no frame and applies
\* no key event; it enters the paused state only by taking Pause, leaves it
\* only on Resume or disconnection, and any other event it receives meanwhile
\* is consumed without effect.
C19_PausedDoesNothing ==
    /\ [][pc = "paused" =>
            /\ UNCHANGED <<ticks, batch, acct, produced, curFrame, trySends, droppedFrames,
                           applied, deviceCallers, limit_speed, plugin_table>>
            /\ Len(frameChan') <= Len(frameChan)]_vars
    /\ [][(pc = "paused" /\ pc' # "paused") =>
            /\ pc' = "recv"
            /\ \/ evChan # <<>> /\ Head(evChan).t = "Resume" /\ evChan' = Tail(evChan)
               \/ evChan = <<>> /\ ~Sender1Alive]_vars
    /\ [][(pc = "paused" /\ pc' = "paused" /\ evChan' # evChan /\ Len(evChan') < Len(evChan)) =>
            /\ Head(evChan).t # "Resume"
            /\ evChan' = Tail(evChan)]_vars
    /\ [][(pc # "paused" /\ pc' = "paused") =>
            (pc = "recv" /\ evChan # <<>> /\ Head(evChan).t = "Pause")]_vars

C19_Witness ==
    /\ pc = "paused"
    /\ takenKeys # <<>>
    /\ applied = <<>>

Ctl(q) == SelectSeq(q, LAMBDA e : e.t \in {"Pause", "Resume"})
Alternates(q) == \A i \in 1..(Len(q) - 1) : q[i].t # q[i + 1].t
InEventLoop == hpc \in {"pump", "recvframe"}

\* C20 (as stated): every Pause the host sends is sent with paused false and
\* every Resume with paused true.
C20_ResumeOnlyWhenPaused ==
    [][(Len(evChan') > Len(evChan)) =>
        /\ evChan'[Len(evChan')].t = "Pause" => ~paused
        /\ evChan'[Len(evChan')].t = "Resume" => paused]_vars

\* C20 (amended): inside its event loop the host sends Pause only with paused
\* false and Resume only with paused true, toggling the flag, so the Pause and
\* Resume events pending in the channel of a live CPU thread alternate and
\* agree with the flag and with the CPU thread's position; the host is never blocked in the blocking
\* frame recv while the CPU thread is blocked in pause_cpu with no Resume
\* pending. The Resume sent after the loop is sent whatever the flag is.
C20_NoPauseDeadlock ==
    /\ [][(InEventLoop /\ Len(evChan') > Len(evChan)) =>
            /\ evChan'[Len(evChan')].t = "Pause" => (~paused /\ paused')
            /\ evChan'[Len(evChan')].t = "Resume" => (paused /\ ~paused')]_vars
    /\ []((InEventLoop /\ CpuAlive) =>
            LET c == Ctl(evChan) IN
            /\ Alternates(c)
            /\ c # <<>> => (paused <=> c[Len(c)].t = "Pause")
            /\ c # <<>> => (pc = "paused" <=> c[1].t = "Resume")
            /\ c = <<>> => (pc = "paused" <=> paused))
    /\ [](~(/\ hpc = "recvframe"
            /\ ~paused
            /\ pc = "paused"
            /\ \A i \in 1..Len(evChan) : evChan[i].t # "Resume"))

C20_Witness ==
    /\ hpc = "recvframe"
    /\ ~paused
    /\ pc = "paused"
    /\ frameChan = <<>>

(***************************************************************************)
(* Audio: CpalPlayer::play and cpal_thread, src/src/main.rs lines 703-729   *)
(***************************************************************************)
SampleRate == 2     \* CpalPlayer.sample_rate, scaled down
MaxPlay == 3        \* longest buf_left / buf_right of one play call
MaxSamples == 5     \* stereo pairs the APU hands to play in total
MaxOut == 4         \* longest output slice of one cpal_thread callback

Stale == -1         \* content of an output slot the callback did not write

Min(a, b) == IF a < b THEN a ELSE b

\* the k-th stereo pair produced by the APU: (left, right)
Pair(k) == <<2 * k, 2 * k + 1>>
\* buf_left and buf_right of a play call handing over pairs first+1..first+n
BufLeft(first, n) == [i \in 1..n |-> Pair(first + i)[1]]
BufRight(first, n) == [i \in 1..n |-> Pair(first + i)[2]]

\* T::from_sample(x): the stream is always built with SampleFormat::F32
from_sample(x) == x

RECURSIVE play_loop(_, _, _, _)
\* for (l, r) in buf_left.iter().zip(buf_right) { if buffer.len() > sample_rate
\* { return; } buffer.push((*l, *r)); } from element i on
play_loop(buf, buf_left, buf_right, i) ==
    IF i > Min(Len(buf_left), Len(buf_right)) THEN buf
    ELSE IF Len(buf) > SampleRate THEN buf
    ELSE play_loop(Append(buf, <<buf_left[i], buf_right[i]>>), buf_left, buf_right, i + 1)

\* let outlen = min(outbuffer.len() / 2, inbuffer.len())
outlen(out, inbuffer) == Min(Len(out) \div 2, Len(inbuffer))

InitAudio ==
    /\ buffer = <<>> /\ nextSample = 0 /\ outbuffer = <<>> /\ delivered = <<>>
    /\ mutex = "free"
    /\ ordA = <<>> /\ ordB = <<>> /\ ordRes = "unset"
    /\ HostIdle /\ CpuIdle /\ CoreIdle

\* let mut buffer = self.buffer.lock().unwrap(); in play, called by the APU
\* on the thread that runs the Device
PlayLock ==
    /\ mutex = "free"
    /\ nextSample < MaxSamples
    /\ mutex' = "cpu"
    /\ UNCHANGED <<buffer, nextSample, outbuffer, delivered, ordVars, hostVars, cpuVars, coreVars>>

\* let mut inbuffer = audio_buffer.lock().unwrap(); in cpal_thread, called by
\* the audio stream's callback thread
CpalLock ==
    /\ mutex = "free"
    /\ mutex' = "audio"
    /\ UNCHANGED <<buffer, nextSample, outbuffer, delivered, ordVars, hostVars, cpuVars, coreVars>>

\* impl AudioPlayer for CpalPlayer: play(buf_left, buf_right); the guard is
\* dropped when play returns
Play(n) ==
    /\ mutex = "cpu"
    /\ mutex' = "free"
    /\ nextSample + n <= MaxSamples
    /\ buffer' = play_loop(buffer, BufLeft(nextSample, n), BufRight(nextSample, n), 1)
    /\ nextSample' = nextSample + n
    /\ UNCHANGED <<outbuffer, delivered, ordVars, hostVars, cpuVars, coreVars>>

\* faulty variant: the callback copies the pairs but leaves them in the buffer
CpalThreadKeep(n) ==
    LET out == [i \in 1..n |-> Stale]
        m == outlen(out, buffer)
    IN  /\ mutex = "audio"
        /\ mutex' = "free"
        /\ outbuffer' = [i \in 1..n |->
                            IF i <= 2 * m
                            THEN from_sample(buffer[(i + 1) \div 2][2 - (i % 2)])
                            ELSE Stale]
        /\ buffer' = buffer
        /\ delivered' = delivered \o SubSeq(buffer, 1, m)
        /\ UNCHANGED <<nextSample, ordVars, hostVars, cpuVars, coreVars>>

\* faulty variant: the part of the output slice that gets no pair is zeroed
CpalThreadZeroFill(n) ==
    LET out == [i \in 1..n |-> Stale]
        m == outlen(out, buffer)
    IN  /\ mutex = "audio"
        /\ mutex' = "free"
        /\ outbuffer' = [i \in 1..n |->
                            IF i <= 2 * m
                            THEN from_sample(buffer[(i + 1) \div 2][2 - (i % 2)])
                            ELSE 0]
        /\ buffer' = SubSeq(buffer, m + 1, Len(buffer))
        /\ delivered' = delivered \o SubSeq(buffer, 1, m)
        /\ UNCHANGED <<nextSample, ordVars, hostVars, cpuVars, coreVars>>

\* cpal_thread(outbuffer, audio_buffer) on an output slice of length n; the
\* guard is dropped when the callback returns
CpalThread(n) ==
    LET out == [i \in 1..n |-> Stale]
        m == outlen(out, buffer)
    IN  /\ mutex = "audio"
        /\ mutex' = "free"
        /\ outbuffer' = [i \in 1..n |->
                            IF i <= 2 * m
                            THEN from_sample(buffer[(i + 1) \div 2][2 - (i % 2)])
                            ELSE out[i]]
        /\ buffer' = SubSeq(buffer, m + 1, Len(buffer))
        /\ delivered' = delivered \o SubSeq(buffer, 1, m)
        /\ UNCHANGED <<nextSample, ordVars, hostVars, cpuVars, coreVars>>

NextAudio ==
    \/ PlayLock
    \/ CpalLock
    \/ \E n \in 1..MaxPlay : Play(n)
    \/ \E n \in 0..MaxOut : CpalThread(n)

SpecAudio == InitAudio /\ [][NextAudio]_vars

\* C10: after any interleaving of play calls and cpal_thread callbacks the
\* shared audio buffer never holds more than sample_rate stereo pairs.
C10_BufferAtMostOneSecond == Len(buffer) <= SampleRate

\* the index of the play pair whose left value is x
PairIndex(x) == x \div 2
\* the number of pairs the last callback wrote to the output slice
Written == Cardinality({i \in 1..(Len(outbuffer) \div 2) : outbuffer[2 * i - 1] # Stale})

\* C24: under every interleaving of play and cpal_thread the pairs written to
\* the output device are an order-preserving subsequence of the pairs passed
\* to play: each delivered pair is the left and right value of one index of
\* one play call, the indices strictly increase (so no pair is delivered
\* twice and none out of order), and the output slice holds the pairs that
\* were delivered last.
C24_DeliveredIsSubsequence ==
    /\ \A i \in 1..Len(delivered) :
            /\ PairIndex(delivered[i][1]) \in 1..nextSample
            /\ delivered[i] = Pair(PairIndex(delivered[i][1]))
    /\ \A i \in 1..(Len(delivered) - 1) :
            PairIndex(delivered[i][1]) < PairIndex(delivered[i + 1][1])
    /\ Written <= Len(delivered)
    /\ \A i \in 1..Written :
            <<outbuffer[2 * i - 1], outbuffer[2 * i]>> =
                delivered[Len(delivered) - Written + i]

C24_Witness ==
    /\ mutex = "free"
    /\ Written = 2
    /\ \E i \in 1..(Len(delivered) - 1) :
            PairIndex(delivered[i + 1][1]) > PairIndex(delivered[i][1]) + 1

\* C25: a callback with an output slice of length n and k buffered pairs
\* takes m = min(n / 2, k) pairs off the front of the buffer, writes pair i to
\* the output positions 2i and 2i + 1 (counted from 0), keeps the other k - m
\* pairs in order and leaves the output positions from 2m on as they were.
C25_CallbackDrainsFront ==
    [][(mutex = "audio" /\ mutex' = "free") =>
        LET n == Len(outbuffer')
            k == Len(buffer)
            m == IF n \div 2 < k THEN n \div 2 ELSE k
        IN  /\ Len(buffer') = k - m
            /\ \A j \in 1..(k - m) : buffer'[j] = buffer[m + j]
            /\ \A i \in 0..(m - 1) :
                    /\ outbuffer'[2 * i + 1] = buffer[i + 1][1]
                    /\ outbuffer'[2 * i + 2] = buffer[i + 1][2]
            /\ \A j \in (2 * m + 1)..n : outbuffer'[j] = Stale]_vars

C25_Witness ==
    /\ mutex = "free"
    /\ Len(outbuffer) = 4
    /\ outbuffer[2] = Pair(1)[2]
    /\ outbuffer[3] = Stale
    /\ buffer = <<>>
    /\ delivered = <<Pair(1)>>

(***************************************************************************)
(* All threads: the host, CPU and timer threads of Spec, or the Device      *)
(* thread and the audio callback thread of SpecAudio                        *)
(***************************************************************************)
InitShared == InitThreads \/ InitAudio

NextShared == Next \/ NextAudio

SpecShared == InitShared /\ [][NextShared]_vars

\* the locals of run_cpu and the Device it owns
deviceState == <<pc, ticks, batch, limit_speed, plugin_table, produced, curFrame,
                 applied, deviceCallers>>

\* C11: once the CPU thread is spawned only it invokes Device methods; a step
\* of the host changes nothing of the CPU thread but the two channels, and a
\* step of the CPU thread nothing of the host but the two channels; the audio
\* buffer, written by the Device thread (play) and by the audio callback
\* (cpal_thread), changes only while the writer holds its mutex.
C11_OnlyAudioBufferShared ==
    /\ [](deviceCallers \subseteq {"cpu"})
    /\ [][(hostOnly' # hostOnly) => UNCHANGED <<deviceState, takenKeys, tpc>>]_vars
    /\ [][(cpuOnly' # cpuOnly) => UNCHANGED hostOnly]_vars
    /\ [][(evChan' # evChan) =>
            \/ /\ Len(evChan') = Len(evChan) + 1
               /\ SubSeq(evChan', 1, Len(evChan)) = evChan
               /\ UNCHANGED cpuOnly
            \/ /\ evChan' = Tail(evChan)
               /\ UNCHANGED hostOnly]_vars
    /\ [][(frameChan' # frameChan) =>
            \/ /\ frameChan' = Append(frameChan, curFrame)
               /\ UNCHANGED hostOnly
            \/ /\ frameChan' = Tail(frameChan) \/ frameChan' = <<>>
               /\ UNCHANGED cpuOnly]_vars
    /\ [][(buffer' # buffer) => (mutex \in {"cpu", "audio"} /\ mutex' = "free")]_vars
    /\ [][(nextSample' # nextSample) => mutex = "cpu"]_vars
    /\ [][(delivered' # delivered \/ outbuffer' # outbuffer) => mutex = "audio"]_vars
    /\ [][(mutex' # mutex) => (mutex = "free" \/ mutex' = "free")]_vars

C11_Witness ==
    /\ deviceCallers = {"cpu"}
    /\ applied # <<>>
    /\ received # <<>>
    /\ pc = "incycle"

(***************************************************************************)
(* Plugin permissions: src/src/plugins/perms.rs                             *)
(***************************************************************************)
MaxEntries == 2     \* most key/value pairs of a Lua table handed to from_value

\* piccolo::Value, as far as from_value tells values apart
Strings == {"all", "none", "read", "write", "exec"}
Scalars == [ty : {"Nil"}] \cup [ty : {"Boolean"}, b : BOOLEAN]
           \cup [ty : {"Integer"}, n : {1, 2}] \cup [ty : {"String"}, s : Strings]
           \cup [ty : {"Function"}]
TableKeys == {k \in Scalars : k.ty = "Integer" \/ (k.ty = "String" /\ k.s = "read")}
TableVals == {v \in Scalars : v.ty = "String" \/ (v.ty = "Boolean" /\ v.b)}
Tables == UNION {[1..n -> TableKeys \X TableVals] : n \in 0..MaxEntries}
Values == Scalars \cup [ty : {"Table"}, tab : Tables]

\* #[derive(Default)]: both fields false
default == [read |-> FALSE, write |-> FALSE]

\* fn all() -> Self { Self { read: true, write: true } }
all == [read |-> TRUE, write |-> TRUE]

\* faulty variant: none() keeps the write permission
none_writable == [read |-> FALSE, write |-> TRUE]

\* fn none() -> Self { Self::default() }
none == default

\* #[derive(PartialEq, Eq)]: field by field
eq(a, b) == (a.read = b.read) /\ (a.write = b.write)

\* fn is_all(&self) -> bool { *self == Self::all() }
is_all(p) == eq(p, all)

\* fn is_none(&self) -> bool { *self == Self::none() }
is_none(p) == eq(p, none)

RECURSIVE table_loop_break(_, _, _)
\* faulty variant: the loop ends at the first pair it would skip
table_loop_break(p, tab, i) ==
    IF i > Len(tab) THEN p
    ELSE LET key == tab[i][1]
             val == tab[i][2]
         IN  IF ~(key.ty = "Integer" /\ val.ty = "String")
             THEN p
             ELSE IF val.s = "read"
                  THEN table_loop_break([p EXCEPT !.read = TRUE], tab, i + 1)
                  ELSE IF val.s = "write"
                       THEN table_loop_break([p EXCEPT !.write = TRUE], tab, i + 1)
                       ELSE p

RECURSIVE table_loop(_, _, _)
\* for (key, val) in tab { .. } from pair i on
table_loop(p, tab, i) ==
    IF i > Len(tab) THEN p
    ELSE LET key == tab[i][1]
             val == tab[i][2]
         IN  IF ~(key.ty = "Integer" /\ val.ty = "String")
             THEN table_loop(p, tab, i + 1)
             ELSE IF val.s = "read"
                  THEN table_loop([p EXCEPT !.read = TRUE], tab, i + 1)
                  ELSE IF val.s = "write"
                       THEN table_loop([p EXCEPT !.write = TRUE], tab, i + 1)
                       ELSE table_loop(p, tab, i + 1)

\* Result<Self, piccolo::TypeError>
Ok(p) == [ok |-> TRUE, val |-> p]
Err(expected) == [ok |-> FALSE, val |-> expected]

\* impl FromValue for ReadWritePermissions
from_value(value) ==
    IF value.ty = "Nil" \/ (value.ty = "Boolean" /\ ~value.b) THEN Ok(none)
    ELSE IF value.ty = "Boolean" THEN Ok(all)
    ELSE IF value.ty = "String"
         THEN IF value.s = "all" THEN Ok(all)
              ELSE IF value.s = "none" THEN Ok(none)
              ELSE Err("all / none")
    ELSE IF value.ty = "Table" THEN Ok(table_loop(none, value.tab, 1))
    ELSE Err("permissions table")

notPerm == <<ordVars, hostVars, cpuVars, audioVars, ppuVars, irqVars, mmuVars, luaVars>>

InitPerms ==
    /\ permStep = "value"
    /\ permValue \in Values
    /\ perms = "unset" /\ permIsAll = FALSE /\ permIsNone = FALSE
    /\ ordA = <<>> /\ ordB = <<>> /\ ordRes = "unset"
    /\ HostIdle /\ CpuIdle /\ AudioIdle /\ PpuIdle /\ IrqIdle /\ MmuIdle /\ LuaIdle

\* ReadWritePermissions::from_value(ctx, permValue)
FromValue ==
    /\ permStep = "value"
    /\ perms' = from_value(permValue)
    /\ permStep' = "result"
    /\ UNCHANGED <<permValue, permIsAll, permIsNone, notPerm>>

\* perms.is_all() and perms.is_none() on the value obtained
CheckLevels ==
    /\ permStep = "result"
    /\ perms.ok
    /\ permIsAll' = is_all(perms.val)
    /\ permIsNone' = is_none(perms.val)
    /\ permStep' = "levels"
    /\ UNCHANGED <<permValue, perms, notPerm>>

NextPerms ==
    \/ FromValue
    \/ CheckLevels

SpecPerms == InitPerms /\ [][NextPerms]_vars

\* C14: is_all() is true exactly of the value equal to all() and is_none()
\* exactly of the value equal to none(); none() grants neither read nor
\* write, all() grants both; no value satisfies is_all() and is_none().
C14_AllNoneLevels ==
    permStep = "levels" =>
        /\ permIsAll <=> (perms.val = all)
        /\ permIsNone <=> (perms.val = none)
        /\ permIsAll <=> (perms.val.read /\ perms.val.write)
        /\ permIsNone <=> (~perms.val.read /\ ~perms.val.write)
        /\ ~none.read /\ ~none.write
        /\ all.read /\ all.write
        /\ ~(permIsAll /\ permIsNone)

C14_Witness ==
    /\ permStep = "levels"
    /\ permIsAll
    /\ ~permIsNone
    /\ permValue.ty = "Table"

\* the pairs of a table that request the permission named s
Requests(tab, s) ==
    {i \in 1..Len(tab) : /\ tab[i][1].ty = "Integer"
                         /\ tab[i][2].ty = "String"
                         /\ tab[i][2].s = s}
Reverse(q) == [i \in 1..Len(q) |-> q[Len(q) + 1 - i]]

\* C27: from_value on a table never fails; read is granted iff some pair with
\* an integer key has the string value "read", write iff some such pair has
\* "write"; the pairs in reverse order, or each pair given twice, yield the
\* same permissions; a table asking for both yields all().
C27_TableOnlyAddsPermissions ==
    (permStep # "value" /\ permValue.ty = "Table") =>
        LET tab == permValue.tab IN
        /\ perms.ok
        /\ perms.val.read <=> (Requests(tab, "read") # {})
        /\ perms.val.write <=> (Requests(tab, "write") # {})
        /\ from_value([ty |-> "Table", tab |-> Reverse(tab)]) = perms
        /\ from_value([ty |-> "Table", tab |-> tab \o tab]) = perms
        /\ (Requests(tab, "read") # {} /\ Requests(tab, "write") # {}) =>
                (perms.val = all /\ is_all(perms.val))

C27_Witness ==
    /\ permStep = "result"
    /\ permValue.ty = "Table"
    /\ Len(permValue.tab) = 2
    /\ permValue.tab[1][1].ty = "String"
    /\ permValue.tab[2][2] = [ty |-> "String", s |-> "write"]
    /\ perms = Ok([read |-> FALSE, write |-> TRUE])

(***************************************************************************)
(* PPU mode machine (spec.md section 4.5) driven as run_cpu drives the      *)
(* Device: one do_cycle, then check_and_reset_gpu_updated                   *)
(***************************************************************************)
FrameCycles == 70224    \* 154 lines of 456 cycles
MaxFed == 70700         \* cycles fed to the PPU in one run

\* cycles one instruction hands to the PPU: 4..24 at normal speed, half of
\* that at double speed
Chunks == {4 * k : k \in 1..6} \cup {2 * k : k \in 1..6}

\* length of a mode in cycles; mode 1 is counted per line
ModeLen(m) == CASE m = 2 -> 80 [] m = 3 -> 172 [] m = 0 -> 204 [] m = 1 -> 456

\* faulty variant: the frame-ready flag is set at the end of every HBlank
ppu_transition_every_line(g) ==
    CASE g.mode = 2 -> [g EXCEPT !.mode = 3, !.clock = 0]
      [] g.mode = 3 -> [g EXCEPT !.mode = 0, !.clock = 0]
      [] g.mode = 0 ->
            IF g.ly + 1 = 144
            THEN [g EXCEPT !.mode = 1, !.ly = 144, !.clock = 0, !.updated = TRUE,
                           !.reqs = @ + 1, !.sets = @ + 1]
            ELSE [g EXCEPT !.mode = 2, !.ly = @ + 1, !.clock = 0, !.updated = TRUE,
                           !.sets = @ + 1]
      [] g.mode = 1 ->
            IF g.ly = 153
            THEN [g EXCEPT !.mode = 2, !.ly = 0, !.clock = 0, !.sets = 0]
            ELSE [g EXCEPT !.ly = @ + 1, !.clock = 0]

\* the transition column of the mode table, taken when a mode's length is used
\* up; entering mode 1 requests VBlank and sets the frame-ready flag
ppu_transition(g) ==
    CASE g.mode = 2 -> [g EXCEPT !.mode = 3, !.clock = 0]
      [] g.mode = 3 -> [g EXCEPT !.mode = 0, !.clock = 0]
      [] g.mode = 0 ->
            IF g.ly + 1 = 144
            THEN [g EXCEPT !.mode = 1, !.ly = 144, !.clock = 0, !.updated = TRUE,
                           !.reqs = @ + 1, !.sets = @ + 1]
            ELSE [g EXCEPT !.mode = 2, !.ly = @ + 1, !.clock = 0]
      [] g.mode = 1 ->
            IF g.ly = 153
            THEN [g EXCEPT !.mode = 2, !.ly = 0, !.clock = 0, !.sets = 0]
            ELSE [g EXCEPT !.ly = @ + 1, !.clock = 0]

RECURSIVE gpu_do_cycle(_, _)
\* the PPU advanced by n cycles
gpu_do_cycle(g, n) ==
    IF n < ModeLen(g.mode) - g.clock
    THEN [g EXCEPT !.clock = @ + n]
    ELSE gpu_do_cycle(ppu_transition(g), n - (ModeLen(g.mode) - g.clock))

notPpu == <<ordVars, hostVars, cpuVars, audioVars, permVars, irqVars, mmuVars, luaVars>>

\* LCD enabled, LY = 0, no cycle spent: at the start of line 0 (mode 2), or in
\* mode 0 as the LCDC write that enables the LCD leaves it (section 4.2)
InitPpu ==
    /\ \E m \in {2, 0} :
        gpu = [mode |-> m, ly |-> 0, clock |-> 0, updated |-> FALSE, reqs |-> 0,
               sets |-> 0]
    /\ fed = 0 /\ trueReturns = 0 /\ ppuStep = "cycle"
    /\ ordA = <<>> /\ ordB = <<>> /\ ordRes = "unset"
    /\ HostIdle /\ CpuIdle /\ AudioIdle /\ PermIdle /\ IrqIdle /\ MmuIdle /\ LuaIdle

\* ticks += cpu.do_cycle(): the instruction's cycles reach the PPU
GpuDoCycle ==
    /\ ppuStep = "cycle"
    /\ \E c \in Chunks :
        /\ fed + c <= MaxFed
        /\ gpu' = gpu_do_cycle(gpu, c)
        /\ fed' = fed + c
    /\ ppuStep' = "check"
    /\ UNCHANGED <<trueReturns, notPpu>>

\* faulty variant: the flag is returned but not reset
CheckAndKeepGpuUpdated ==
    /\ ppuStep = "check"
    /\ trueReturns' = IF gpu.updated THEN trueReturns + 1 ELSE trueReturns
    /\ ppuStep' = "cycle"
    /\ UNCHANGED <<gpu, fed, notPpu>>

\* if cpu.check_and_reset_gpu_updated() { .. }: returns the flag and resets it
CheckAndResetGpuUpdated ==
    /\ ppuStep = "check"
    /\ trueReturns' = IF gpu.updated THEN trueReturns + 1 ELSE trueReturns
    /\ gpu' = [gpu EXCEPT !.updated = FALSE]
    /\ ppuStep' = "cycle"
    /\ UNCHANGED <<fed, notPpu>>

NextPpu ==
    \/ GpuDoCycle
    \/ CheckAndResetGpuUpdated

SpecPpu == InitPpu /\ [][NextPpu]_vars

\* C15: LY only ever counts 0, 1, .., 153 and back to 0, so within a frame it
\* takes each value once, in increasing order; mode 1 is on exactly for LY
\* 144..153; the frame-ready flag is set once per frame, on entering mode 1
\* at LY = 144.
C15_LyOncePerFrame ==
    /\ [](gpu.ly \in 0..153)
    /\ [](gpu.mode = 1 <=> gpu.ly >= 144)
    /\ [][\/ gpu'.ly = gpu.ly
          \/ gpu'.ly = gpu.ly + 1
          \/ gpu.ly = 153 /\ gpu'.ly = 0]_vars
    /\ [](gpu.sets = IF gpu.ly >= 144 THEN 1 ELSE 0)
    /\ [][(gpu'.sets > gpu.sets \/ (gpu'.updated /\ ~gpu.updated)) =>
            /\ gpu.mode = 0 /\ gpu.ly = 143
            /\ gpu'.mode = 1 /\ gpu'.ly = 144
            /\ gpu'.updated
            /\ gpu'.sets = 1]_vars

C15_Witness ==
    /\ gpu.reqs = 1
    /\ gpu.ly = 0
    /\ gpu.mode = 3
    /\ fed > FrameCycles

\* C16: once exactly 70224 cycles have been fed from the LCD-enabled reset
\* state, VBlank has been requested once and check_and_reset_gpu_updated has
\* returned true once: on the call that follows the do_cycle entering mode 1,
\* after which the flag stays down until the next frame.
C16_OneVBlankPerFrameCycles ==
    /\ []((fed = FrameCycles /\ ppuStep = "cycle") =>
            (gpu.reqs = 1 /\ trueReturns = 1))
    /\ [](ppuStep = "cycle" => ~gpu.updated)
    /\ [](fed <= FrameCycles => trueReturns + (IF gpu.updated THEN 1 ELSE 0) = gpu.reqs)
    /\ [][(trueReturns' # trueReturns) =>
            (gpu.updated /\ ~gpu'.updated /\ trueReturns' = trueReturns + 1)]_vars

C16_Witness ==
    /\ fed = FrameCycles
    /\ ppuStep = "cycle"
    /\ trueReturns = 1
    /\ gpu.mode = 2 /\ gpu.ly = 0 /\ gpu.clock = 0

(***************************************************************************)
(* Interrupts: the CPU step of spec.md sections 3 and 4.1                   *)
(***************************************************************************)
MaxServices == 2    \* interrupts serviced in one run
MaxInstr == 2       \* instructions executed in one run

\* bits of IE and IF the model sets: VBlank, LCD STAT, Joypad and bit 5, which
\* is no interrupt source
Bits == {0, 1, 4, 5}
Instrs == {"NOP", "EI", "DI", "HALT"}

\* IE & IF & 0x1F
Pending(ie, if) == (ie \cap if) \cap 0..4

\* the highest-priority bit: VBlank (0) first
Priority(bits) == CHOOSE b \in bits : \A c \in bits : b <= c

notIrq == <<ordVars, hostVars, cpuVars, audioVars, permVars, ppuVars, mmuVars, luaVars>>

InitIrq ==
    /\ ime \in {"Disabled", "Enabled", "PendingEnable"}
    /\ inte \in SUBSET Bits
    /\ intf \in SUBSET Bits
    /\ halted \in BOOLEAN
    /\ regPC = 256 /\ regSP = 65534 /\ stack = <<>>
    /\ cpuStep = "activate"
    /\ nServices = 0 /\ nInstr = 0
    /\ ordA = <<>> /\ ordB = <<>> /\ ordRes = "unset"
    /\ HostIdle /\ CpuIdle /\ AudioIdle /\ PermIdle /\ PpuIdle /\ MmuIdle /\ LuaIdle

\* step (1): IME goes from Pending-Enable to Enabled
Activate ==
    /\ cpuStep = "activate"
    /\ nServices < MaxServices
    /\ ime' = IF ime = "PendingEnable" THEN "Enabled" ELSE ime
    /\ cpuStep' = "interrupt"
    /\ UNCHANGED <<inte, intf, halted, regPC, regSP, stack, nServices, nInstr, notIrq>>

\* faulty variant: IE & IF is not masked with 0x1F
HandleInterruptUnmasked ==
    /\ cpuStep = "interrupt"
    /\ IF ime = "Enabled" /\ (inte \cap intf) # {}
       THEN LET bit == Priority(inte \cap intf) IN
            /\ ime' = "Disabled"
            /\ intf' = intf \ {bit}
            /\ stack' = Append(stack, regPC)
            /\ regSP' = (regSP - 2) % 65536
            /\ regPC' = 64 + 8 * bit
            /\ halted' = FALSE
            /\ nServices' = nServices + 1
            /\ cpuStep' = "activate"
       ELSE /\ halted' = IF Pending(inte, intf) # {} THEN FALSE ELSE halted
            /\ cpuStep' = "execute"
            /\ UNCHANGED <<ime, intf, stack, regSP, regPC, nServices>>
    /\ UNCHANGED <<inte, nInstr, notIrq>>

\* step (2): service the interrupt if one is pending and IME is enabled, and
\* return; a pending interrupt clears HALT even with IME disabled
HandleInterrupt ==
    /\ cpuStep = "interrupt"
    /\ IF ime = "Enabled" /\ Pending(inte, intf) # {}
       THEN LET bit == Priority(Pending(inte, intf)) IN
            /\ ime' = "Disabled"
            /\ intf' = intf \ {bit}
            /\ stack' = Append(stack, regPC)
            /\ regSP' = (regSP - 2) % 65536
            /\ regPC' = 64 + 8 * bit
            /\ halted' = FALSE
            /\ nServices' = nServices + 1
            /\ cpuStep' = "activate"
       ELSE /\ halted' = IF Pending(inte, intf) # {} THEN FALSE ELSE halted
            /\ cpuStep' = "execute"
            /\ UNCHANGED <<ime, intf, stack, regSP, regPC, nServices>>
    /\ UNCHANGED <<inte, nInstr, notIrq>>

\* step (3): a no-op tick in HALT, else one instruction; the peripherals
\* advanced with it may raise bits of IF
Execute ==
    /\ cpuStep = "execute"
    /\ \E raised \in {{}} \cup {{b} : b \in Bits} :
        intf' = intf \cup raised
    /\ IF halted
       THEN UNCHANGED <<ime, halted, regPC, nInstr>>
       ELSE \E op \in Instrs :
            /\ nInstr < MaxInstr
            /\ nInstr' = nInstr + 1
            /\ regPC' = (regPC + 1) % 65536
            /\ ime' = CASE op = "EI" -> (IF ime = "Disabled" THEN "PendingEnable" ELSE ime)
                         [] op = "DI" -> "Disabled"
                         [] OTHER -> ime
            /\ halted' = (op = "HALT")
    /\ cpuStep' = "activate"
    /\ UNCHANGED <<inte, regSP, stack, nServices, notIrq>>

NextIrq ==
    \/ Activate
    \/ HandleInterrupt
    \/ Execute

SpecIrq == InitIrq /\ [][NextIrq]_vars

\* C17: the CPU step services an interrupt exactly when IME is enabled and
\* IE & IF & 0x1F is not zero; servicing clears IME, clears in IF the
\* lowest-numbered pending enabled bit and no other, pushes PC, sets PC to
\* 0x0040 + 8 * bit and leaves HALT.
C17_ServicedIffEnabledAndPending ==
    /\ [][cpuStep = "interrupt" =>
            ((nServices' = nServices + 1) <=>
             (ime = "Enabled" /\ \E b \in 0..4 : b \in inte /\ b \in intf))]_vars
    /\ [][(nServices' # nServices) =>
            \E bit \in 0..4 :
                /\ cpuStep = "interrupt"
                /\ bit \in inte /\ bit \in intf
                /\ \A b \in 0..(bit - 1) : ~(b \in inte /\ b \in intf)
                /\ ime' = "Disabled"
                /\ intf' = intf \ {bit}
                /\ stack' = Append(stack, regPC)
                /\ regPC' = 64 + 8 * bit
                /\ ~halted'
                /\ inte' = inte]_vars

C17_Witness ==
    /\ nServices = 1
    /\ regPC = 72
    /\ ime = "Disabled"
    /\ {4, 5} \subseteq (inte \cap intf)
    /\ stack = <<257>>

(***************************************************************************)
(* MMU: cycles handed to the peripherals (spec.md sections 2, 4.1, 4.2)     *)
(***************************************************************************)
MaxTicks == 48      \* CPU cycles executed in one run

\* cycle counts of one instruction: 1..6 machine cycles, counted in T-states
Cycles == {4 * k : k \in 1..6}

notMmu == <<ordVars, hostVars, cpuVars, audioVars, permVars, ppuVars, irqVars, luaVars>>

InitMmu ==
    /\ gbspeed = 1
    /\ cpuSingle = 0 /\ cpuDouble = 0
    /\ timerSum = 0 /\ gpuSum = 0 /\ apuSum = 0
    /\ ordA = <<>> /\ ordB = <<>> /\ ordRes = "unset"
    /\ HostIdle /\ CpuIdle /\ AudioIdle /\ PermIdle /\ PpuIdle /\ IrqIdle /\ LuaIdle

\* faulty variant: the instruction's cost is counted in machine cycles
MmuDoCycleMachineCycles ==
    \E c \in 1..6 :
        /\ cpuSingle + cpuDouble + c <= MaxTicks
        /\ cpuSingle' = IF gbspeed = 1 THEN cpuSingle + c ELSE cpuSingle
        /\ cpuDouble' = IF gbspeed = 2 THEN cpuDouble + c ELSE cpuDouble
        /\ timerSum' = timerSum + c
        /\ gpuSum' = gpuSum + (c \div gbspeed)
        /\ apuSum' = apuSum + (c \div gbspeed)
        /\ UNCHANGED <<gbspeed, notMmu>>

\* after an instruction of c cycles the MMU advances the peripherals: the
\* Timer by that many cycles, the PPU and the APU by half of them in
\* double-speed mode
MmuDoCycle ==
    \E c \in Cycles :
        /\ cpuSingle + cpuDouble + c <= MaxTicks
        /\ cpuSingle' = IF gbspeed = 1 THEN cpuSingle + c ELSE cpuSingle
        /\ cpuDouble' = IF gbspeed = 2 THEN cpuDouble + c ELSE cpuDouble
        /\ timerSum' = timerSum + c
        /\ gpuSum' = gpuSum + (c \div gbspeed)
        /\ apuSum' = apuSum + (c \div gbspeed)
        /\ UNCHANGED <<gbspeed, notMmu>>

\* STOP with KEY1 bit 0 set toggles the speed
SpeedSwitch ==
    /\ gbspeed' = 3 - gbspeed
    /\ UNCHANGED <<cpuSingle, cpuDouble, timerSum, gpuSum, apuSum, notMmu>>

NextMmu ==
    \/ MmuDoCycle
    \/ SpeedSwitch

SpecMmu == InitMmu /\ [][NextMmu]_vars

MaxArgs == 2        \* most values on the stack a callback is entered with
MaxCalls == 2       \* callback calls made by the plugin
U16 == 65536        \* address as u16
U8 == 256           \* byte as u8

\* piccolo::Value, as far as the callbacks tell values apart
LuaInts == {-1, 7, 263, 65543}
LuaValues == [ty : {"Nil"}] \cup [ty : {"Integer"}, n : LuaInts]
             \cup [ty : {"Number"}] \cup [ty : {"String"}]
LuaStacks == UNION {[1..n -> LuaValues] : n \in 0..MaxArgs}
Nil == [ty |-> "Nil"]
Integer(n) == [ty |-> "Integer", n |-> n]

\* stack.pop_front(): the value taken (Nil from an empty stack) and the rest
pop_front(st) ==
    IF st = <<>> THEN [value |-> Nil, stack |-> <<>>]
    ELSE [value |-> Head(st), stack |-> Tail(st)]
\* stack.push_front(v)
push_front(st, v) == <<v>> \o st

\* address as u16, byte as u8: the low bits of the i64
as_u16(n) == n % U16
as_u8(n) == n % U8

notLua == <<ordVars, hostVars, cpuVars, audioVars, permVars, ppuVars, irqVars, mmuVars>>

InitLua ==
    /\ LuaIdle
    /\ ordA = <<>> /\ ordB = <<>> /\ ordRes = "unset"
    /\ HostIdle /\ CpuIdle /\ AudioIdle /\ PermIdle /\ PpuIdle /\ IrqIdle /\ MmuIdle

\* the closure registered as "readbyte"; the MMU decides the byte read
Readbyte(args) ==
    LET address == pop_front(args) IN
    /\ luaCalls < MaxCalls
    /\ luaCalls' = luaCalls + 1
    /\ luaFn' = "readbyte"
    /\ luaArgs' = args
    /\ IF address.value.ty # "Integer"
       THEN /\ luaRet' = push_front(address.stack, Nil)
            /\ UNCHANGED mmuCalls
       ELSE \E byte \in {0, U8 - 1} :
            /\ mmuCalls' = Append(mmuCalls, [op |-> "rb", addr |-> as_u16(address.value.n)])
            /\ luaRet' = push_front(address.stack, Integer(byte))
    /\ UNCHANGED notLua

\* faulty variant: a value that is not an integer is written as 0
WritebyteNilAsZero(args) ==
    LET address == pop_front(args)
        byte == pop_front(address.stack)
    IN
    /\ luaCalls < MaxCalls
    /\ luaCalls' = luaCalls + 1
    /\ luaFn' = "writebyte"
    /\ luaArgs' = args
    /\ IF address.value.ty # "Integer"
       THEN /\ luaRet' = push_front(address.stack, Nil)
            /\ UNCHANGED mmuCalls
       ELSE /\ mmuCalls' = Append(mmuCalls,
                    [op |-> "wb", addr |-> as_u16(address.value.n),
                     val |-> IF byte.value.ty = "Integer" THEN as_u8(byte.value.n) ELSE 0])
            /\ luaRet' = byte.stack
    /\ UNCHANGED notLua

\* the closure registered as "writebyte"
Writebyte(args) ==
    LET address == pop_front(args)
        byte == pop_front(address.stack)
    IN
    /\ luaCalls < MaxCalls
    /\ luaCalls' = luaCalls + 1
    /\ luaFn' = "writebyte"
    /\ luaArgs' = args
    /\ IF address.value.ty # "Integer"
       THEN /\ luaRet' = push_front(address.stack, Nil)
            /\ UNCHANGED mmuCalls
       ELSE IF byte.value.ty # "Integer"
       THEN /\ luaRet' = push_front(byte.stack, Nil)
            /\ UNCHANGED mmuCalls
       ELSE /\ mmuCalls' = Append(mmuCalls,
                    [op |-> "wb", addr |-> as_u16(address.value.n),
                     val |-> as_u8(byte.value.n)])
            /\ luaRet' = byte.stack
    /\ UNCHANGED notLua

NextLua ==
    \/ \E args \in LuaStacks : Readbyte(args)
    \/ \E args \in LuaStacks : Writebyte(args)

SpecLua == InitLua /\ [][NextLua]_vars

\* the i-th argument of a call, Nil when it was not passed
Arg(args, i) == IF i <= Len(args) THEN args[i] ELSE Nil
\* the MMU calls a step adds
NewCalls == SubSeq(mmuCalls', Len(mmuCalls) + 1, Len(mmuCalls'))

\* C26: readbyte with an address that is not an integer, and writebyte with
\* an address or a value that is not an integer, return Nil and call neither
\* rb nor wb; otherwise exactly one rb or wb is made, with the address reduced
\* modulo 2^16 and the written value modulo 2^8.
C26_CallbacksCheckTypes ==
    [][(luaCalls' = luaCalls + 1) =>
        LET a == Arg(luaArgs', 1)
            b == Arg(luaArgs', 2)
        IN  /\ SubSeq(mmuCalls', 1, Len(mmuCalls)) = mmuCalls
            /\ (luaFn' = "readbyte" /\ a.ty # "Integer") =>
                    (NewCalls = <<>> /\ Head(luaRet') = Nil)
            /\ (luaFn' = "readbyte" /\ a.ty = "Integer") =>
                    NewCalls = <<[op |-> "rb", addr |-> a.n % 65536]>>
            /\ (luaFn' = "writebyte" /\ (a.ty # "Integer" \/ b.ty # "Integer")) =>
                    (NewCalls = <<>> /\ Head(luaRet') = Nil)
            /\ (luaFn' = "writebyte" /\ a.ty = "Integer" /\ b.ty = "Integer") =>
                    NewCalls = <<[op |-> "wb", addr |-> a.n % 65536, val |-> b.n % 256]>>
            /\ \A i \in 1..Len(NewCalls) : NewCalls[i].addr \in 0..65535]_vars

C26_Witness ==
    /\ luaCalls = 2
    /\ luaFn = "writebyte"
    /\ luaArgs = <<Integer(7), [ty |-> "String"]>>
    /\ luaRet = <<Nil>>
    /\ mmuCalls = <<[op |-> "wb", addr |-> 65535, val |-> 7]>>

====
